---- MODULE Spec2Model ----
(***************************************************************************)
(* Model of scripts/make-dns-records.py: forward zone construction, the    *)
(* PTR index, and the IPv4 / IPv6 reverse zone builders.                   *)
(*                                                                         *)
(* Python strings are sequences of one-character strings, so that lstrip,  *)
(* slicing, endswith and replace are computed character by character.      *)
(* An IPv4 address is four octets, an IPv6 address thirty-two nibbles.     *)
(***************************************************************************)
EXTENDS Integers, Sequences, FiniteSets, TLC

VARIABLES dns_records, ownnets4, ownnets6,
          ptr_records, namedconf_entries, files, opened, named_conf, pc

vars == <<dns_records, ownnets4, ownnets6,
          ptr_records, namedconf_entries, files, opened, named_conf, pc>>

(***************************************************************************)
(* Bounds of the explored configurations.                                  *)
(***************************************************************************)
MaxRecords == 1
MaxNets4 == 2
MaxNets6 == 1

(***************************************************************************)
(* Strings                                                                 *)
(***************************************************************************)
Digits == <<"0", "1", "2", "3", "4", "5", "6", "7", "8", "9">>

HexDigits == <<"0", "1", "2", "3", "4", "5", "6", "7", "8", "9",
               "a", "b", "c", "d", "e", "f">>

Lower == <<"a", "b", "c", "d", "e", "f", "g", "h", "i", "j", "k", "l", "m",
           "n", "o", "p", "q", "r", "s", "t", "u", "v", "w", "x", "y", "z">>

Capital == <<"A", "B", "C", "D", "E", "F", "G", "H", "I", "J", "K", "L", "M",
             "N", "O", "P", "Q", "R", "S", "T", "U", "V", "W", "X", "Y", "Z">>

\* str(n) for a non-negative integer
RECURSIVE Dec(_)
Dec(n) == IF n < 10 THEN <<Digits[n + 1]>>
          ELSE Dec(n \div 10) \o <<Digits[(n % 10) + 1]>>

\* int(s) for a string of decimal digits
RECURSIVE ParseDec(_)
ParseDec(s) ==
    IF s = <<>> THEN 0
    ELSE ParseDec(SubSeq(s, 1, Len(s) - 1)) * 10
         + (CHOOSE d \in 0..9 : Digits[d + 1] = s[Len(s)])

\* int(c, 16) for one hexadecimal digit
ParseHex(c) == CHOOSE d \in 0..15 : HexDigits[d + 1] = c

\* sep.join(parts)
RECURSIVE Join(_, _)
Join(parts, sep) ==
    IF parts = <<>> THEN <<>>
    ELSE IF Len(parts) = 1 THEN parts[1]
    ELSE parts[1] \o sep \o Join(Tail(parts), sep)

\* s.split(sep) for a one-character separator
RECURSIVE Split(_, _)
Split(s, sep) ==
    IF \A k \in 1..Len(s) : s[k] # sep THEN <<s>>
    ELSE LET p == CHOOSE k \in 1..Len(s) :
                     s[k] = sep /\ \A j \in 1..(k - 1) : s[j] # sep
         IN <<SubSeq(s, 1, p - 1)>> \o Split(SubSeq(s, p + 1, Len(s)), sep)

\* seq[::-1]
Reverse(s) == [k \in 1..Len(s) |-> s[Len(s) + 1 - k]]

\* s.lstrip(chars): drops every leading character that is in chars
RECURSIVE LStrip(_, _)
LStrip(s, chars) ==
    IF s # <<>> /\ s[1] \in chars THEN LStrip(Tail(s), chars) ELSE s

\* s.endswith(suffix)
EndsWith(s, suffix) ==
    /\ Len(s) >= Len(suffix)
    /\ SubSeq(s, Len(s) - Len(suffix) + 1, Len(s)) = suffix

\* s.replace(old, new) for one-character old and new
Replace(s, old, new) == [k \in 1..Len(s) |-> IF s[k] = old THEN new ELSE s[k]]

\* s.upper()
Upper(s) ==
    [k \in 1..Len(s) |->
        IF \E l \in 1..26 : Lower[l] = s[k]
        THEN Capital[CHOOSE l \in 1..26 : Lower[l] = s[k]]
        ELSE s[k]]

\* s[:n] with Python's slice semantics for a negative n
Slice(s, n) ==
    IF n >= 0 THEN SubSeq(s, 1, IF n > Len(s) THEN Len(s) ELSE n)
    ELSE SubSeq(s, 1, Len(s) + n)

Dot == <<".">>

InAddrArpa == <<".", "i", "n", "-", "a", "d", "d", "r", ".", "a", "r", "p", "a">>

Ip6Arpa == <<".", "i", "p", "6", ".", "a", "r", "p", "a">>

(***************************************************************************)
(* Addresses and networks (module ipaddress)                               *)
(***************************************************************************)
Pow2(k) == IF k <= 0 THEN 1 ELSE 2 ^ k

Clamp(x, lo, hi) == IF x < lo THEN lo ELSE IF x > hi THEN hi ELSE x

\* width in bits of one component: an octet (IPv4) or a nibble (IPv6)
Width(v) == IF v = 4 THEN 8 ELSE 4

\* number of host bits of the k-th component under a prefix length
HostBits(v, prefixlen, k) == Clamp(Width(v) * k - prefixlen, 0, Width(v))

\* str(IPv4Address)
Str4(o) == Join([k \in 1..4 |-> Dec(o[k])], Dot)

\* IPv6Address.exploded
Str6(o) ==
    Join([g \in 1..8 |-> [k \in 1..4 |-> HexDigits[o[4 * (g - 1) + k] + 1]]],
         <<":">>)

\* ipaddress.ip_address(data) for a dotted-decimal or an exploded literal
ip_address(data) ==
    IF \E k \in 1..Len(data) : data[k] = ":"
    THEN LET groups == Split(data, ":")
         IN [v |-> 6,
             o |-> [k \in 1..32 |->
                      ParseHex(groups[((k - 1) \div 4) + 1][((k - 1) % 4) + 1])]]
    ELSE LET parts == Split(data, ".")
         IN [v |-> 4, o |-> [k \in 1..4 |-> ParseDec(parts[k])]]

\* IPv4Address.reverse_pointer / IPv6Address.reverse_pointer
reverse_pointer(ip) ==
    IF ip.v = 4
    THEN Join(Reverse(Split(Str4(ip.o), ".")), Dot) \o InAddrArpa
    ELSE Join([k \in 1..32 |-> <<HexDigits[ip.o[33 - k] + 1]>>], Dot) \o Ip6Arpa

\* IPv4Network.reverse_pointer: the octets of "a.b.c.d/p" reversed
net_reverse_pointer(net) ==
    Join(Reverse(Split(Str4(net.o) \o <<"/">> \o Dec(net.prefixlen), ".")), Dot)
        \o InAddrArpa

\* network.network_address
network_address(net) == [v |-> net.v, o |-> net.o]

\* network.broadcast_address
broadcast_address(net) ==
    [v |-> net.v,
     o |-> [k \in 1..Len(net.o) |->
              LET h == Pow2(HostBits(net.v, net.prefixlen, k))
              IN (net.o[k] \div h) * h + (h - 1)]]

\* ipaddr in ipnet
InNet(ip, net) ==
    /\ ip.v = net.v
    /\ \A k \in 1..Len(net.o) :
          LET h == Pow2(HostBits(net.v, net.prefixlen, k))
          IN ip.o[k] \div h = net.o[k] \div h

\* ipaddr in ipnet.hosts()
InHosts(ip, net) ==
    /\ InNet(ip, net)
    /\ net.prefixlen < 31 =>
          /\ ip # network_address(net)
          /\ ip # broadcast_address(net)

\* ipnet.supernet(new_prefix=p)
supernet(net, p) ==
    [v |-> net.v,
     o |-> [k \in 1..Len(net.o) |->
              LET h == Pow2(HostBits(net.v, p, k)) IN (net.o[k] \div h) * h],
     prefixlen |-> p]

\* a < b on addresses of one family
AddrLess(a, b) ==
    \E k \in 1..Len(a.o) :
        /\ a.o[k] < b.o[k]
        /\ \A j \in 1..(k - 1) : a.o[j] = b.o[j]

(***************************************************************************)
(* Python values: None (an optional string that is given is [val |-> s]),  *)
(* and dicts as insertion-ordered sequences of [k, v] entries with unique  *)
(* keys.                                                                   *)
(***************************************************************************)
None == [none |-> TRUE]

DictHas(d, key) == \E n \in 1..Len(d) : d[n].k = key

DictGet(d, key) == d[CHOOSE n \in 1..Len(d) : d[n].k = key].v

\* d[key] = val: an existing key keeps its position
DictSet(d, key, val) ==
    IF DictHas(d, key)
    THEN [n \in 1..Len(d) |-> IF d[n].k = key THEN [k |-> key, v |-> val] ELSE d[n]]
    ELSE Append(d, [k |-> key, v |-> val])

Chars_A == <<"A">>

Chars_AAAA == <<"A", "A", "A", "A">>

Chars_PTR == <<"P", "T", "R">>

Chars_CNAME == <<"C", "N", "A", "M", "E">>

Chars_host_alias ==
    <<"a", "n", "s", "i", "b", "l", "e", "_", "h", "o", "s", "t", "_",
      "a", "l", "i", "a", "s">>

Chars_host_record ==
    <<"a", "n", "s", "i", "b", "l", "e", "_", "h", "o", "s", "t", "_",
      "r", "e", "c", "o", "r", "d">>

Chars_zone == <<".", "z", "o", "n", "e">>

(***************************************************************************)
(* The mutable program state threaded through the functions:               *)
(* ptr_records, namedconf_entries, the zone files on disk, the log of      *)
(* files opened, and the exception being raised (if any).                  *)
(***************************************************************************)
Raise(st, exc) == [st EXCEPT !.err = exc]

\* get_zone_file: registers the zone and opens its file for writing, which
\* truncates a file of that name; the file descriptor is the file name
zone_fname(zonename) == Replace(zonename, "/", "_") \o Chars_zone

get_zone_file(st, zonename) ==
    LET fname == zone_fname(zonename)
    IN [st EXCEPT
          !.namedconf_entries = DictSet(@, zonename, fname),
          !.files = DictSet(@, fname, [origin |-> zonename, body |-> <<>>]),
          !.opened = Append(@, zonename)]

\* fd.write(f"{name} IN {rtype} {data}\n")
fd_write(st, fd, line) ==
    LET f == DictGet(st.files, fd)
    IN [st EXCEPT !.files = DictSet(@, fd, [f EXCEPT !.body = Append(@, line)])]

_write_entry(st, fd, name, rtype0, data, reverse_domain) ==
    IF st.err # "none" THEN st
    ELSE
    LET rtype == Upper(rtype0)
        st1 == fd_write(st, fd, [name |-> name, rtype |-> rtype, data |-> data])
    IN IF reverse_domain # None
       THEN IF rtype \notin {Chars_A, Chars_AAAA}
            THEN Raise(st1, "ValueError")
            ELSE LET ipaddr == ip_address(data)
                 IN [st1 EXCEPT !.ptr_records =
                        DictSet(@, ipaddr, name \o Dot \o reverse_domain.val)]
       ELSE st1

(***************************************************************************)
(* Loaded configuration that is the same in every run explored:            *)
(* global_vars['dns_domain'] and the inventory (hosts).                    *)
(***************************************************************************)
dns_domain == <<"e", "x", ".", "d", "n", "4", "2">>

OtherDomain == <<"o", ".", "d", "n", "4", "2">>

\* thirty-two nibbles: the given leading nibbles, zeros, the given last nibble
V6(lead, last) ==
    [k \in 1..32 |-> IF k <= Len(lead) THEN lead[k]
                     ELSE IF k = 32 THEN last ELSE 0]

hosts ==
    <<[k |-> <<"r", "1">>,
       v |-> [shortname |-> <<"r", "1">>,
              ownip |-> Str4(<<172, 20, 229, 113>>),
              ownip6 |-> Str6(V6(<<15, 13, 0, 0, 0, 0, 0, 1>>, 2))]]>>

(***************************************************************************)
(* write_forward_zone                                                      *)
(***************************************************************************)
\* forward_record with a closed set of kinds: any other type tag raises
forward_record_closed(st, fd, domain, record_name, data) ==
    IF st.err # "none" THEN st
    ELSE IF data.type = Chars_host_alias
    THEN IF "target" \notin DOMAIN data \/ ~DictHas(hosts, data.target)
         THEN Raise(st, "KeyError")
         ELSE _write_entry(
                  _write_entry(st, fd, record_name, Chars_A,
                               DictGet(hosts, data.target).ownip, None),
                  fd, record_name, Chars_AAAA,
                  DictGet(hosts, data.target).ownip6, None)
    ELSE IF data.type = Chars_host_record
    THEN _write_entry(
             _write_entry(st, fd, record_name, Chars_A, data.ip4, [val |-> domain]),
             fd, record_name, Chars_AAAA, data.ip6, [val |-> domain])
    ELSE Raise(st, "ValueError")

\* one iteration of "for record_name, data in records.items()"
forward_record(st, fd, domain, record_name, data) ==
    IF st.err # "none" THEN st
    ELSE IF data.type = Chars_host_alias
    THEN IF "target" \notin DOMAIN data \/ ~DictHas(hosts, data.target)
         THEN Raise(st, "KeyError")
         ELSE LET hostdata == DictGet(hosts, data.target)
                  st1 == _write_entry(st, fd, record_name, Chars_A,
                                      hostdata.ownip, None)
              IN _write_entry(st1, fd, record_name, Chars_AAAA,
                              hostdata.ownip6, None)
    ELSE IF data.type = Chars_host_record
    THEN IF {"ip4", "ip6"} \subseteq DOMAIN data
         THEN LET st1 == _write_entry(st, fd, record_name, Chars_A,
                                      data.ip4, [val |-> domain])
              IN _write_entry(st1, fd, record_name, Chars_AAAA,
                              data.ip6, [val |-> domain])
         ELSE Raise(st, "KeyError")
    ELSE IF "target" \in DOMAIN data
         THEN _write_entry(st, fd, record_name, data.type, data.target, None)
         ELSE Raise(st, "KeyError")

RECURSIVE forward_records(_, _, _, _)
forward_records(st, fd, domain, records) ==
    IF records = <<>> THEN st
    ELSE forward_records(
             forward_record(st, fd, domain, records[1].k, records[1].v),
             fd, domain, Tail(records))

\* "for router in hosts": the host records of the main domain
RECURSIVE router_records(_, _, _, _)
router_records(st, fd, domain, routers) ==
    IF routers = <<>> THEN st
    ELSE LET h == routers[1].v
             st1 == _write_entry(st, fd, h.shortname, Chars_A,
                                 h.ownip, [val |-> domain])
             st2 == _write_entry(st1, fd, h.shortname, Chars_AAAA,
                                 h.ownip6, [val |-> domain])
         IN router_records(st2, fd, domain, Tail(routers))

write_forward_zone(st, domain, records) ==
    LET st0 == get_zone_file(st, domain)
        fd == zone_fname(domain)
        st1 == forward_records(st0, fd, domain, records)
    IN IF domain = dns_domain
       THEN router_records(st1, fd, domain, hosts)
       ELSE st1

(***************************************************************************)
(* Reverse zones                                                           *)
(***************************************************************************)
\* "if not record.endswith('.'): record += '.'"
WithDot(record) == IF EndsWith(record, Dot) THEN record ELSE record \o Dot

\* the loop of _write_ptr_zone over ptr_records.items(), in insertion order
RECURSIVE ptr_zone_entries(_, _, _, _)
ptr_zone_entries(st, fd, ipnet, entries) ==
    IF entries = <<>> THEN st
    ELSE LET ipaddr == entries[1].k
             record == entries[1].v
             st1 == IF InNet(ipaddr, ipnet)
                    THEN _write_entry(st, fd, reverse_pointer(ipaddr),
                                      Chars_PTR, WithDot(record), None)
                    ELSE st
         IN ptr_zone_entries(st1, fd, ipnet, Tail(entries))

\* _write_ptr_zone with a containment test that ignores the prefix length
_write_ptr_zone_any_prefix(st, zonename, ipnet) ==
    LET st0 == get_zone_file(st, zonename)
    IN ptr_zone_entries(st0, zone_fname(zonename),
                        [ipnet EXCEPT !.prefixlen = 0], st.ptr_records)

\* _write_ptr_zone that pops each entry it writes out of ptr_records
_write_ptr_zone_consuming(st, zonename, ipnet) ==
    LET st0 == get_zone_file(st, zonename)
        st1 == ptr_zone_entries(st0, zone_fname(zonename), ipnet, st.ptr_records)
    IN [st1 EXCEPT !.ptr_records = SelectSeq(@, LAMBDA e : ~InNet(e.k, ipnet))]

_write_ptr_zone(st, zonename, ipnet) ==
    LET st0 == get_zone_file(st, zonename)
    IN ptr_zone_entries(st0, zone_fname(zonename), ipnet, st.ptr_records)

\* ipaddress.IPv4Network(netblock) / ipaddress.IPv6Network(netblock) for an
\* "address/prefixlen" literal
ip_network(netblock) ==
    LET parts == Split(netblock, "/")
        addr == ip_address(parts[1])
    IN [v |-> addr.v, o |-> addr.o, prefixlen |-> ParseDec(parts[2])]

\* the literal has host bits set: the constructor raises ValueError
has_host_bits(net) == supernet(net, net.prefixlen).o # net.o

\* the indexed addresses met by "for ipaddr in ipnet.hosts()", ascending
RECURSIVE SortAddrs(_)
SortAddrs(S) ==
    IF S = {} THEN <<>>
    ELSE LET m == CHOOSE a \in S : \A b \in S \ {a} : AddrLess(a, b)
         IN <<m>> \o SortAddrs(S \ {m})

indexed_hosts(st, ipnet) ==
    SortAddrs({st.ptr_records[n].k : n \in
                  {m \in 1..Len(st.ptr_records) :
                      InHosts(st.ptr_records[m].k, ipnet)}})

\* the zone name of a block on an octet (or nibble) boundary
stripped_zonename(net) == LStrip(reverse_pointer(network_address(net)), {"0", "."})

\* f'{relevant_octets}.{ipnet.reverse_pointer}' : the trailing dot left out
cname_record_relative(relevant_octets, ipnet) ==
    relevant_octets \o Dot \o net_reverse_pointer(ipnet)

\* f'{relevant_octets}.{ipnet.reverse_pointer}.'
cname_record(relevant_octets, ipnet) ==
    relevant_octets \o Dot \o net_reverse_pointer(ipnet) \o Dot

\* the RFC 2317 loop of write_ptr4_zone
RECURSIVE rfc2317_entries(_, _, _, _, _, _)
rfc2317_entries(st, fd, classful_fd, classful_zonename, ipnet, addrs) ==
    IF addrs = <<>> THEN st
    ELSE LET ipaddr == addrs[1]
             record == DictGet(st.ptr_records, ipaddr)
             rp == reverse_pointer(ipaddr)
             relevant_octets == Slice(rp, Len(rp) - Len(classful_zonename) - 1)
             st1 == _write_entry(st, fd, relevant_octets, Chars_PTR,
                                 WithDot(record), None)
             st2 == _write_entry(st1, classful_fd, relevant_octets, Chars_CNAME,
                                 cname_record(relevant_octets, ipnet), None)
         IN rfc2317_entries(st2, fd, classful_fd, classful_zonename, ipnet,
                            Tail(addrs))

write_ptr4_zone(st, netblock) ==
    LET ipnet == ip_network(netblock)
    IN IF has_host_bits(ipnet) THEN Raise(st, "ValueError")
       ELSE IF ipnet.prefixlen % 8 = 0
       THEN _write_ptr_zone(st, stripped_zonename(ipnet), ipnet)
       ELSE LET zonename == net_reverse_pointer(ipnet)
                st0 == get_zone_file(st, zonename)
                nearest_classful_prefixlen == (ipnet.prefixlen \div 8) * 8
                nearest_classful_net == supernet(ipnet, nearest_classful_prefixlen)
                classful_zonename == stripped_zonename(nearest_classful_net)
                st1 == get_zone_file(st0, classful_zonename)
            IN rfc2317_entries(st1, zone_fname(zonename),
                               zone_fname(classful_zonename), classful_zonename,
                               ipnet, indexed_hosts(st1, ipnet))

write_ptr6_zone(st, netblock) ==
    LET ipnet == ip_network(netblock)
    IN IF has_host_bits(ipnet) THEN Raise(st, "ValueError")
       ELSE _write_ptr_zone(st, stripped_zonename(ipnet), ipnet)

\* write_named_conf: one stanza per registered zone, in registration order
write_named_conf(st) ==
    [n \in 1..Len(st.namedconf_entries) |->
        [zone |-> st.namedconf_entries[n].k, file |-> st.namedconf_entries[n].v]]

(***************************************************************************)
(* Configurations explored.  main reads global_vars['dns_records'],        *)
(* ['ownnets4'] and ['ownnets6'] item by item; the variables dns_records,  *)
(* ownnets4 and ownnets6 hold the items read so far, each drawn from the   *)
(* pools below when its loop iteration runs.  The domains of dns_records   *)
(* are dict keys, so distinct; the blocks of a list are taken distinct.    *)
(***************************************************************************)
SeqsUpTo(S, n) == UNION {[1..m -> S] : m \in 0..n}

Distinct(s) == \A a, b \in 1..Len(s) : a # b => s[a].k # s[b].k

Net4(o, p) == Str4(o) \o <<"/">> \o Dec(p)

Net6(lead, p) == Str6(V6(lead, 0)) \o <<"/">> \o Dec(p)

Nets4Pool ==
    { Net4(<<172, 20, 229, 0>>, 24), Net4(<<192, 168, 0, 0>>, 24),
      Net4(<<172, 20, 229, 112>>, 28), Net4(<<172, 20, 229, 16>>, 28),
      Net4(<<172, 16, 0, 0>>, 12) }

Nets6Pool == { Net6(<<15, 13>>, 16), Net6(<<15, 13, 0, 0, 0, 0, 0, 1>>, 32) }

HostRecord(ip4, ip6) ==
    [type |-> Chars_host_record, ip4 |-> Str4(ip4), ip6 |-> Str6(ip6)]

Generic(type, target) == [type |-> type, target |-> target]

RecordPool ==
    { [k |-> <<"n", "0">>,
       v |-> HostRecord(<<172, 20, 229, 112>>, V6(<<15, 13>>, 1))],
      [k |-> <<"b", "a", "d">>, v |-> Generic(Chars_host_alias, <<"r", "9">>)],
      [k |-> <<"x">>, v |-> Generic(<<"b", "o", "g", "u", "s">>, <<"h", "i">>)] }

RecordLists == {r \in SeqsUpTo(RecordPool, MaxRecords) : Distinct(r)}

DomainPool == {dns_domain, OtherDomain}

(***************************************************************************)
(* main                                                                    *)
(***************************************************************************)
State ==
    [ptr_records |-> ptr_records, namedconf_entries |-> namedconf_entries,
     files |-> files, opened |-> opened, err |-> "none"]

\* the effect of one call made by main; an unhandled exception ends the run
Commit(st, label) ==
    /\ ptr_records' = st.ptr_records
    /\ namedconf_entries' = st.namedconf_entries
    /\ files' = st.files
    /\ opened' = st.opened
    /\ pc' = IF st.err = "none" THEN label ELSE "error"
    /\ UNCHANGED named_conf

Init ==
    /\ dns_records = <<>>
    /\ ownnets4 = <<>>
    /\ ownnets6 = <<>>
    /\ ptr_records = <<>>
    /\ namedconf_entries = <<>>
    /\ files = <<>>
    /\ opened = <<>>
    /\ named_conf = None
    /\ pc = "forward"

\* one iteration of "for domain, records in global_vars['dns_records'].items()"
ForwardZone ==
    /\ pc = "forward"
    /\ \E domain \in DomainPool, records \in RecordLists :
          /\ ~DictHas(dns_records, domain)
          /\ dns_records' = Append(dns_records, [k |-> domain, v |-> records])
          /\ Commit(write_forward_zone(State, domain, records), "forward")
    /\ UNCHANGED <<ownnets4, ownnets6>>

\* one iteration of "for netblock in global_vars['ownnets4']"; the loop over
\* dns_records has ended
Ptr4Zone ==
    /\ pc \in {"forward", "ptr4"}
    /\ Len(ownnets4) < MaxNets4
    /\ \E netblock \in Nets4Pool :
          /\ \A n \in 1..Len(ownnets4) : ownnets4[n] # netblock
          /\ ownnets4' = Append(ownnets4, netblock)
          /\ Commit(write_ptr4_zone(State, netblock), "ptr4")
    /\ UNCHANGED <<dns_records, ownnets6>>

\* one iteration of "for netblock in global_vars['ownnets6']"; the loops over
\* dns_records and ownnets4 have ended
Ptr6Zone ==
    /\ pc \in {"forward", "ptr4", "ptr6"}
    /\ Len(ownnets6) < MaxNets6
    /\ \E netblock \in Nets6Pool :
          /\ \A n \in 1..Len(ownnets6) : ownnets6[n] # netblock
          /\ ownnets6' = Append(ownnets6, netblock)
          /\ Commit(write_ptr6_zone(State, netblock), "ptr6")
    /\ UNCHANGED <<dns_records, ownnets4>>

\* write_named_conf(), after the three loops
NamedConf ==
    /\ pc \in {"forward", "ptr4", "ptr6"}
    /\ named_conf' = write_named_conf(State)
    /\ pc' = "done"
    /\ UNCHANGED <<dns_records, ownnets4, ownnets6, ptr_records,
                   namedconf_entries, files, opened>>

Next ==
    \/ ForwardZone
    \/ Ptr4Zone
    \/ Ptr6Zone
    \/ NamedConf

Spec == Init /\ [][Next]_vars

(***************************************************************************)
(* Vocabulary of the properties, stated independently of the operators     *)
(* above: containment by bits, DNS labels, the zone files on disk.         *)
(***************************************************************************)
Last(s) == s[Len(s)]

\* the n-th most significant bit of an address (n from 1)
Bit(x, n) ==
    LET w == Width(x.v)
        k == ((n - 1) \div w) + 1
        j == ((n - 1) % w) + 1
    IN (x.o[k] \div (2 ^ (w - j))) % 2

\* the address agrees with the block on the block's first prefixlen bits
Within(a, net) ==
    /\ a.v = net.v
    /\ \A n \in 1..net.prefixlen : Bit(a, n) = Bit(net, n)

Aligned(net) == net.prefixlen \in {8, 16, 24, 32}

DropFirstLabel(name) == Join(Tail(Split(name, ".")), Dot)

IsSuffix(t, s) == Len(t) <= Len(s) /\ SubSeq(s, Len(s) - Len(t) + 1, Len(s)) = t

IndexedAddrs == {ptr_records[n].k : n \in 1..Len(ptr_records)}

\* the zone file registered for a zone name
FileOf(registry, disk, zone) == DictGet(disk, DictGet(registry, zone))

ZoneFile(zone) == FileOf(namedconf_entries, files, zone)

RecordsOf(file) == {file.body[n] : n \in 1..Len(file.body)}

\* the block write_ptr4_zone / write_ptr6_zone was last called with
LastNet4 == ip_network(Last(ownnets4))

LastNet6 == ip_network(Last(ownnets6))

\* the state right after a call of write_ptr4_zone / write_ptr6_zone that
\* raised nothing
AfterPtr4 == pc = "ptr4"

AfterPtr6 == pc = "ptr6"

\* a step that is one call of write_ptr4_zone which raised nothing
Ptr4Step == ownnets4' # ownnets4 /\ pc' = "ptr4"

\* the zones a step opened, given the log before and after it
OpenedBy(before, after) == SubSeq(after, Len(before) + 1, Len(after))

\* the delegated and the classful zone file of the non-aligned block last written
DelegatedZone == ZoneFile(opened[Len(opened) - 1])

ClassfulZone == ZoneFile(Last(opened))

\* delegated and classful zone hold matching PTR and CNAME records
Rfc2317Paired(deleg, classful) ==
    /\ deleg.origin # classful.origin
    /\ \A r \in RecordsOf(deleg) :
          /\ r.rtype = Chars_PTR
          /\ \E c \in RecordsOf(classful) :
                /\ c.rtype = Chars_CNAME
                /\ c.name = r.name
                /\ c.data = r.name \o Dot \o deleg.origin \o Dot
    /\ \A c \in RecordsOf(classful) :
          /\ c.rtype = Chars_CNAME
          /\ \E r \in RecordsOf(deleg) : r.rtype = Chars_PTR /\ r.name = c.name

\* the number of PTR records of a zone file with the given owner name
PtrCount(file, owner) ==
    Cardinality({n \in 1..Len(file.body) :
                    /\ file.body[n].rtype = Chars_PTR
                    /\ file.body[n].name = owner})

\* the record is the PTR record, in that zone file, of the address with
\* reverse pointer rp: its owner name is rp, or rp without a suffix of the
\* zone origin
IsPtrFor(file, r, rp) ==
    /\ r.rtype = Chars_PTR
    /\ \/ r.name = rp
       \/ /\ Len(r.name) + 1 < Len(rp)
          /\ SubSeq(rp, 1, Len(r.name) + 1) = r.name \o Dot
          /\ IsSuffix(SubSeq(rp, Len(r.name) + 2, Len(rp)), file.origin)

\* the zone files that hold a PTR record of the address
PtrZones(a) ==
    LET rp == reverse_pointer(a)
    IN {n \in 1..Len(files) :
           \E r \in RecordsOf(files[n].v) : IsPtrFor(files[n].v, r, rp)}

\* the configured blocks, parsed
Blocks ==
    {ip_network(ownnets4[n]) : n \in 1..Len(ownnets4)}
        \cup {ip_network(ownnets6[n]) : n \in 1..Len(ownnets6)}

BlocksHolding(a, blocks) == {b \in blocks : Within(a, b)}

\* DNS record types; any other tag that is not one of the two ansible_host_*
\* kinds is an unrecognized kind
KnownRecordTypes ==
    {Chars_A, Chars_AAAA, Chars_PTR, Chars_CNAME, <<"T", "X", "T">>,
     <<"M", "X">>, <<"N", "S">>, <<"S", "R", "V">>}

Unrecognized(data) ==
    /\ data.type \notin {Chars_host_alias, Chars_host_record}
    /\ Upper(data.type) \notin KnownRecordTypes

\* the n-th spec of the domain entry is reached: no spec before it raises
Reached(entry, n) ==
    \A m \in 1..(n - 1) :
        entry.v[m].v.type = Chars_host_alias => DictHas(hosts, entry.v[m].v.target)

\* <<d, n>>: the n-th spec of the d-th domain is of unrecognized kind and reached
UnrecognizedSpecs ==
    {s \in (1..Len(dns_records)) \X (1..MaxRecords) :
        /\ s[2] <= Len(dns_records[s[1]].v)
        /\ Unrecognized(dns_records[s[1]].v[s[2]].v)
        /\ Reached(dns_records[s[1]], s[2])}

\* no host alias of the configuration read so far names an unknown host
NoFailingAlias ==
    \A d \in 1..Len(dns_records) :
        Reached(dns_records[d], Len(dns_records[d].v) + 1)

Overlap(b, c) ==
    \/ Within(network_address(ip_network(b)), ip_network(c))
    \/ Within(network_address(ip_network(c)), ip_network(b))

PairwiseDisjoint(nets) ==
    \A m, n \in 1..Len(nets) : m # n => ~Overlap(nets[m], nets[n])

\* drops leading "0" labels, at most budget of them
RECURSIVE DropZeroLabels(_, _)
DropZeroLabels(labels, budget) ==
    IF budget > 0 /\ labels # <<>> /\ labels[1] = <<"0">>
    THEN DropZeroLabels(Tail(labels), budget - 1)
    ELSE labels

\* the nibbles of an IPv6 address that lie wholly outside the prefix
HostNibbles(net) == 32 - ((net.prefixlen + 3) \div 4)

(***************************************************************************)
(* C1: for an IPv4 block with prefix length 8, 16 or 24, write_ptr4_zone   *)
(* produces exactly one reverse zone, named by the network address's       *)
(* reverse pointer with exactly one leading octet component removed.       *)
(* Violated: lstrip('0.') removes every leading "0" octet, so              *)
(* 192.168.0.0/24 gets the zone 168.192.in-addr.arpa.                      *)
(***************************************************************************)
C1_AlignedZoneDropsOneOctet ==
    [][(Ptr4Step /\ Aligned(ip_network(Last(ownnets4'))))
        => opened' = Append(opened,
               DropFirstLabel(reverse_pointer(
                   network_address(ip_network(Last(ownnets4'))))))]_vars

(***************************************************************************)
(* C2: for an IPv4 block whose prefix length is not a multiple of 8,       *)
(* write_ptr4_zone produces exactly two zones, the delegated one and the   *)
(* classful one; every PTR record of the delegated zone has a CNAME of the *)
(* same owner name in the classful zone whose target is                    *)
(* "<owner>.<delegated zone name>.", and the classful zone holds no CNAME  *)
(* without such a PTR.                                                     *)
(***************************************************************************)
C2_Rfc2317TwoZonesPaired ==
    [][(Ptr4Step /\ ~Aligned(ip_network(Last(ownnets4'))))
        => /\ Len(opened') = Len(opened) + 2
           /\ SubSeq(opened', 1, Len(opened)) = opened
           /\ Rfc2317Paired(
                  FileOf(namedconf_entries', files', OpenedBy(opened, opened')[1]),
                  FileOf(namedconf_entries', files', OpenedBy(opened, opened')[2]))]_vars

\* C2: a non-aligned block was just written, and its delegated and classful
\* zones hold records
C2_Witness ==
    /\ AfterPtr4
    /\ ~Aligned(LastNet4)
    /\ DelegatedZone.body # <<>>
    /\ ClassfulZone.body # <<>>

(***************************************************************************)
(* C3: for a non-aligned IPv4 block, every address inside the block that   *)
(* has a PTR Index entry, the network and the broadcast address included,  *)
(* gets a PTR record in the delegated zone and a CNAME record in the       *)
(* classful zone.  Violated: the loop runs over ipnet.hosts(), which       *)
(* leaves out the network and the broadcast address.                       *)
(***************************************************************************)
C3_EveryIndexedAddressDelegated ==
    (AfterPtr4 /\ ~Aligned(LastNet4))
    => \A a \in IndexedAddrs :
          Within(a, LastNet4)
          => \E r \in RecordsOf(DelegatedZone) :
                /\ r.rtype = Chars_PTR
                /\ r.name \o Dot \o Last(opened) = reverse_pointer(a)
                /\ \E c \in RecordsOf(ClassfulZone) :
                      c.rtype = Chars_CNAME /\ c.name = r.name

(***************************************************************************)
(* C4: in the reverse zone of an aligned IPv4 block each PTR record's      *)
(* owner name is relative to the zone origin: owner + "." + zone name is   *)
(* the address's full reverse pointer.  Violated: _write_ptr_zone writes   *)
(* the full reverse pointer as the owner name.                             *)
(***************************************************************************)
C4_AlignedOwnerRelativeToOrigin ==
    (AfterPtr4 /\ Aligned(LastNet4))
    => \A r \in RecordsOf(ZoneFile(Last(opened))) :
          r.rtype = Chars_PTR
          => \E a \in IndexedAddrs :
                r.name \o Dot \o Last(opened) = reverse_pointer(a)

(***************************************************************************)
(* C5: the zone written by write_ptr6_zone holds exactly one PTR record    *)
(* for each indexed address within the block, and no record for an address *)
(* outside the block or absent from the index.                             *)
(***************************************************************************)
C5_Ptr6ZoneExactlyIndexedWithin ==
    AfterPtr6
    => LET zone == ZoneFile(Last(opened))
           net == LastNet6
           inside == {a \in IndexedAddrs : Within(a, net)}
       IN /\ \A a \in inside : PtrCount(zone, reverse_pointer(a)) = 1
          /\ \A a \in IndexedAddrs \ inside : PtrCount(zone, reverse_pointer(a)) = 0
          /\ \A r \in RecordsOf(zone) :
                /\ r.rtype = Chars_PTR
                /\ \E a \in inside :
                      /\ r.name = reverse_pointer(a)
                      /\ r.data = DictGet(ptr_records, a) \o Dot

\* C5: an IPv6 block was just written with one indexed IPv6 address inside it
\* and another outside it
C5_Witness ==
    /\ AfterPtr6
    /\ \E a, b \in IndexedAddrs :
          /\ a.v = 6 /\ Within(a, LastNet6)
          /\ b.v = 6 /\ ~Within(b, LastNet6)

(***************************************************************************)
(* C6: in a run of main every forward zone, and so every write to the PTR  *)
(* Index, comes before the first reverse zone is opened; during the        *)
(* reverse pass the PTR Index is not modified.                             *)
(***************************************************************************)
C6_ForwardBeforeReverse ==
    [][/\ dns_records' # dns_records
          => /\ ownnets4 = <<>> /\ ownnets6 = <<>>
             /\ Len(opened) = Len(dns_records)
       /\ ptr_records' # ptr_records
          => /\ dns_records' # dns_records
             /\ ownnets4' = <<>> /\ ownnets6' = <<>>
       /\ (ownnets4' # ownnets4 \/ ownnets6' # ownnets6 \/ pc' = "done")
          => ptr_records' = ptr_records]_vars

\* C6: a finished run that filled the PTR Index and then wrote IPv4 and IPv6
\* reverse zones with PTR records in them
C6_Witness ==
    /\ pc = "done"
    /\ ptr_records # <<>>
    /\ ownnets4 # <<>>
    /\ ownnets6 # <<>>
    /\ \E n \in 1..Len(files) : \E r \in RecordsOf(files[n].v) : r.rtype = Chars_PTR

C8_UnrecognizedKindAborts ==
    \A s \in UnrecognizedSpecs :
        /\ pc = "error"
        /\ \A r \in RecordsOf(ZoneFile(dns_records[s[1]].k)) :
              r.name # dns_records[s[1]].v[s[2]].k

(***************************************************************************)
(* C8, amended: a record spec whose type tag is neither ansible_host_alias *)
(* nor ansible_host_record is written as a generic record, "<name> IN      *)
(* <tag in upper case> <target>", with no PTR Index entry, and raises no   *)
(* error.                                                                  *)
(***************************************************************************)
C8_UnrecognizedKindIsGeneric ==
    /\ \A s \in UnrecognizedSpecs :
          LET domain == dns_records[s[1]].k
              spec == dns_records[s[1]].v[s[2]]
          IN /\ [name |-> spec.k, rtype |-> Upper(spec.v.type),
                 data |-> spec.v.target] \in RecordsOf(ZoneFile(domain))
             /\ \A n \in 1..Len(ptr_records) :
                   ptr_records[n].v # spec.k \o Dot \o domain
    /\ NoFailingAlias => pc # "error"

\* C8: a forward zone with a spec of unrecognized kind was just written
C8_Witness ==
    /\ pc = "forward"
    /\ \E s \in UnrecognizedSpecs : s[1] = Len(dns_records)

(***************************************************************************)
(* C9: over a whole run no zone name is opened a second time, also when    *)
(* the blocks are pairwise disjoint, such as two /28 of one /24; the       *)
(* registry holds one entry per zone created.  Violated: both /28 open the *)
(* classful zone of their common /24, and the second open truncates the    *)
(* CNAME records of the first.                                             *)
(***************************************************************************)
C9_NoZoneOpenedTwice ==
    (PairwiseDisjoint(ownnets4) /\ PairwiseDisjoint(ownnets6))
    => /\ \A m, n \in 1..Len(opened) : m # n => opened[m] # opened[n]
       /\ Len(namedconf_entries) = Len(opened)

(***************************************************************************)
(* C10: the zone name of an IPv6 block is the network address's            *)
(* nibble-reversed name with leading "0" components removed only up to     *)
(* the first non-zero nibble or the network boundary; zero nibbles inside  *)
(* the prefix are kept.  Violated: lstrip('0.') also removes the zero      *)
(* nibbles inside the prefix, so fd00::/16 gets the zone d.f.ip6.arpa.     *)
(***************************************************************************)
C10_Zone6KeepsPrefixZeros ==
    AfterPtr6
    => Last(opened) =
          Join(DropZeroLabels(Split(reverse_pointer(network_address(LastNet6)), "."),
                              HostNibbles(LastNet6)),
               Dot)

====
